---- MODULE Spec2Model ----
(***************************************************************************)
(* One run of web_dashboard.py: the data file is loaded, the sidebar       *)
(* collects a filter selection, the table is filtered and the views of     *)
(* the three tabs are computed from the filtered table.                    *)
(*                                                                         *)
(* Encodings.  A table is a sequence of records, one per row, in row       *)
(* order; idx is the row's index label, which pandas keeps through         *)
(* filtering.  A null cell of a text column is the string NaN, a null      *)
(* date is NaT.  Dates are the naturals yyyymm.  Coordinates are           *)
(* hundredths of a degree.  Store names and SKUs are naturals whose        *)
(* order is the names' sort order.  Amounts and units are integers.        *)
(* The ASP column (a float quotient) and its mean are not modelled.        *)
(***************************************************************************)
EXTENDS Integers, Sequences, FiniteSets, TLC

VARIABLES pc, source, df, st_error, st_warning, sorted_months, picked,
          sel_month, sel_zone, sel_cat, df_filtered,
          kpi_rev, kpi_vol, kpi_stores, zone_agg, trend_df,
          top_stores, bottom_stores, top_sku, top_zone, computed

vars == <<pc, source, df, st_error, st_warning, sorted_months, picked,
          sel_month, sel_zone, sel_cat, df_filtered,
          kpi_rev, kpi_vol, kpi_stores, zone_agg, trend_df,
          top_stores, bottom_stores, top_sku, top_zone, computed>>

(* ---------------------------- bounds ------------------------------------ *)

\* longest table drawn from SourceRows
MaxRows == 2

\* number of stores (one row each) of the wide tables
WideStores == 11

(* ---------------------------- constants --------------------------------- *)

NaN == "NaN"

NaT == 0

\* what a format-less parse makes of a "Mon'yy" label when it reads the
\* two digits as a day of the month
MisreadDate == 101

TopN == 10

ZONE_COORDS ==
    [z \in {"North", "West", "East", "South", "Central"} |->
        CASE z = "North"   -> [lat |-> 2861, lon |-> 7720]
          [] z = "West"    -> [lat |-> 1907, lon |-> 7287]
          [] z = "East"    -> [lat |-> 2257, lon |-> 8836]
          [] z = "South"   -> [lat |-> 1297, lon |-> 7759]
          [] z = "Central" -> [lat |-> 2114, lon |-> 7908]]

\* sort order of the zone strings, as groupby(sort=True) orders its keys
ZoneOrder == <<"Central", "East", "North", "South", "Unknown", "West">>

(* ---------------------------- sequences --------------------------------- *)

Range(s) == {s[i] : i \in 1..Len(s)}

Min(a, b) == IF a <= b THEN a ELSE b

Column(table, f) == [i \in 1..Len(table) |-> table[i][f]]

\* Series.unique(): the distinct values in order of first appearance,
\* null included
RECURSIVE unique(_)
unique(col) ==
    IF col = <<>> THEN <<>>
    ELSE LET front == unique(SubSeq(col, 1, Len(col) - 1))
             last  == col[Len(col)]
         IN  IF last \in Range(front) THEN front ELSE Append(front, last)

RECURSIVE SumSeq(_)
SumSeq(s) == IF s = <<>> THEN 0 ELSE Head(s) + SumSeq(Tail(s))

firstN(s, n) == SubSeq(s, 1, Min(n, Len(s)))

\* stable insertion of x into a sequence ascending in val
RECURSIVE InsertAsc(_, _)
InsertAsc(s, x) ==
    IF s = <<>> THEN <<x>>
    ELSE IF x.val < Head(s).val THEN <<x>> \o s
    ELSE <<Head(s)>> \o InsertAsc(Tail(s), x)

\* stable insertion of x into a sequence descending in val
RECURSIVE InsertDesc(_, _)
InsertDesc(s, x) ==
    IF s = <<>> THEN <<x>>
    ELSE IF x.val > Head(s).val THEN <<x>> \o s
    ELSE <<Head(s)>> \o InsertDesc(Tail(s), x)

RECURSIVE SortAsc(_)
SortAsc(s) ==
    IF s = <<>> THEN <<>>
    ELSE InsertAsc(SortAsc(SubSeq(s, 1, Len(s) - 1)), s[Len(s)])

RECURSIVE SortDesc(_)
SortDesc(s) ==
    IF s = <<>> THEN <<>>
    ELSE InsertDesc(SortDesc(SubSeq(s, 1, Len(s) - 1)), s[Len(s)])

\* the members of a set of naturals, ascending
RECURSIVE SortedNat(_)
SortedNat(S) ==
    IF S = {} THEN <<>>
    ELSE LET m == CHOOSE x \in S : \A y \in S : x <= y
         IN  <<m>> \o SortedNat(S \ {m})

(* ---------------------------- the source file --------------------------- *)

Row(m, z, c, k, s, a, u) ==
    [Month2 |-> m, Zone |-> z, Category |-> c, SKU |-> k, Store |-> s,
     Amount |-> a, UnitSold |-> u]

SourceRows ==
    { Row("Nov'24",  "North",   "A", 1, 1, 100, 1),
      Row("Nov'24",  "South",   "B", 2, 2, 200, 2),
      Row("Dec'24",  "North",   "B", 2, 2, 100, 1),
      Row("Dec'24",  "Unknown", "A", 1, 1, 300, 3),
      Row("Nov'24",  NaN,       "A", 1, 3, 200, 2),
      Row("garbage", "West",    "A", 1, 1, 100, 1),
      Row("Dec'24",  "East",    "B", 2, 3, 100, 1),
      Row("Jan'25",  "Central", "A", 1, 2, 200, 1) }

SmallTables == UNION {[1..n -> SourceRows] : n \in 0..MaxRows}

WideTables ==
    {[i \in 1..WideStores |-> Row("Nov'24", "North", "A", 1, i, a[i], 1)] :
        a \in [1..WideStores -> {100, 200}]}

Sources ==
    {[status |-> "missing", rows |-> <<>>],
     [status |-> "unreadable", rows |-> <<>>]}
    \cup {[status |-> "ok", rows |-> t] : t \in SmallTables \cup WideTables}

(* ---------------------------- load_data --------------------------------- *)

\* strptime with format %b'%y
StrptimeTable ==
    ("Nov'24" :> 202411) @@ ("Dec'24" :> 202412) @@ ("Jan'25" :> 202501)

Parseable(label) == label \in DOMAIN StrptimeTable

StrictParse(label) == StrptimeTable[label]

\* to_datetime(errors='coerce') without a format: an unparseable value
\* becomes NaT; what a "Mon'yy" label becomes depends on the parser
PermissiveModes == {"month", "misread", "null"}

Coerce(label, mode) ==
    IF ~Parseable(label) THEN NaT
    ELSE CASE mode = "month"   -> StrictParse(label)
           [] mode = "misread" -> MisreadDate
           [] mode = "null"    -> NaT

DateColumns(rows) ==
    IF \A i \in 1..Len(rows) : Parseable(rows[i].Month2)
    THEN {[i \in 1..Len(rows) |-> StrictParse(rows[i].Month2)]}
    ELSE {[i \in 1..Len(rows) |-> Coerce(rows[i].Month2, mode)] :
            mode \in PermissiveModes}

CoordFallbackNorth(z) ==
    IF z \in DOMAIN ZONE_COORDS THEN ZONE_COORDS[z] ELSE ZONE_COORDS["North"]

Coord(z) ==
    IF z \in DOMAIN ZONE_COORDS THEN ZONE_COORDS[z] ELSE ZONE_COORDS["Central"]

ReadFailsOnlyNotFound(src) == src.status = "missing"

ReadFails(src) == src.status # "ok"

ReadErrorText(src) ==
    IF src.status = "missing" THEN "Critical Error: Data file not found"
    ELSE "Data Load Error"

Frame(rows, dates) ==
    [i \in 1..Len(rows) |->
        [idx |-> i, Month2 |-> rows[i].Month2, Zone |-> rows[i].Zone,
         Category |-> rows[i].Category, SKU |-> rows[i].SKU,
         Store |-> rows[i].Store, Amount |-> rows[i].Amount,
         UnitSold |-> rows[i].UnitSold, Date |-> dates[i],
         Lat |-> Coord(rows[i].Zone).lat, Lon |-> Coord(rows[i].Zone).lon]]

(* ---------------------------- filter ------------------------------------ *)

EffectiveSetNone(sel, col) == sel

EffectiveSet(sel, col) == IF sel = {} THEN Range(unique(col)) ELSE sel

RowMatchesAny(r, months, zones, cats) ==
    r.Month2 \in months \/ r.Zone \in zones \/ r.Category \in cats

RowMatches(r, months, zones, cats) ==
    r.Month2 \in months /\ r.Zone \in zones /\ r.Category \in cats

RECURSIVE SelectRowsReversed(_, _, _, _)
SelectRowsReversed(table, months, zones, cats) ==
    IF table = <<>> THEN <<>>
    ELSE LET rest == SelectRowsReversed(Tail(table), months, zones, cats)
         IN  IF RowMatches(Head(table), months, zones, cats)
             THEN Append(rest, Head(table)) ELSE rest

RECURSIVE SelectRows(_, _, _, _)
SelectRows(table, months, zones, cats) ==
    IF table = <<>> THEN <<>>
    ELSE LET rest == SelectRows(Tail(table), months, zones, cats)
         IN  IF RowMatches(Head(table), months, zones, cats)
             THEN <<Head(table)>> \o rest ELSE rest

\* lines 76-85 as a function of a table and a selection
Filter(table, sel) ==
    SelectRows(table,
               EffectiveSet(sel.month, Column(table, "Month2")),
               EffectiveSet(sel.zone, Column(table, "Zone")),
               EffectiveSet(sel.cat, Column(table, "Category")))

emptyOffByOne(frame) == Len(frame) <= 1

empty(frame) == Len(frame) = 0

(* ---------------------------- state machine ----------------------------- *)

NoPick == [month |-> {}, zone |-> {}, cat |-> {}]

Init ==
    /\ pc = "start"
    /\ source \in Sources
    /\ df = <<>>
    /\ st_error = ""
    /\ st_warning = FALSE
    /\ sorted_months = <<>>
    /\ picked = NoPick
    /\ sel_month = {}
    /\ sel_zone = {}
    /\ sel_cat = {}
    /\ df_filtered = <<>>
    /\ kpi_rev = 0
    /\ kpi_vol = 0
    /\ kpi_stores = 0
    /\ zone_agg = <<>>
    /\ trend_df = <<>>
    /\ top_stores = <<>>
    /\ bottom_stores = <<>>
    /\ top_sku = <<>>
    /\ top_zone = <<>>
    /\ computed = {}

viewVars == <<kpi_rev, kpi_vol, kpi_stores, zone_agg, trend_df,
              top_stores, bottom_stores, top_sku, top_zone, computed>>

\* df = load_data(DATA_PATH)
Load ==
    /\ pc = "start"
    /\ IF ReadFails(source)
       THEN /\ st_error' = ReadErrorText(source)
            /\ pc' = "stopped"
            /\ df' = df
       ELSE /\ \E dates \in DateColumns(source.rows) :
                    df' = Frame(source.rows, dates)
            /\ pc' = "sidebar"
            /\ st_error' = st_error
    /\ UNCHANGED <<source, st_warning, sorted_months, picked, sel_month,
                   sel_zone, sel_cat, df_filtered>>
    /\ UNCHANGED viewVars

MonthSeries(labels) ==
    [i \in 1..Len(labels) |-> [key |-> labels[i], val |-> StrictParse(labels[i])]]

\* the sidebar: the months sorted by their parsed date, then the three
\* multiselects; a label the format rejects raises out of the sort key
Sidebar ==
    /\ pc = "sidebar"
    /\ LET months == unique(Column(df, "Month2"))
           zones  == unique(Column(df, "Zone"))
           cats   == unique(Column(df, "Category"))
       IN  IF \E l \in Range(months) : ~Parseable(l)
           THEN /\ pc' = "crashed"
                /\ UNCHANGED <<sorted_months, picked, sel_month, sel_zone,
                               sel_cat>>
           ELSE /\ sorted_months' = Column(SortAsc(MonthSeries(months)), "key")
                /\ \E pm \in SUBSET Range(months), pz \in SUBSET Range(zones),
                      pcat \in SUBSET Range(cats) :
                        /\ picked' = [month |-> pm, zone |-> pz, cat |-> pcat]
                        /\ sel_month' = pm
                        /\ sel_zone' = pz
                        /\ sel_cat' = pcat
                /\ pc' = "filter"
    /\ UNCHANGED <<source, df, st_error, st_warning, df_filtered>>
    /\ UNCHANGED viewVars

\* Global Filter Application and the empty-result stop
ApplyFilter ==
    /\ pc = "filter"
    /\ sel_month' = EffectiveSet(sel_month, Column(df, "Month2"))
    /\ sel_zone' = EffectiveSet(sel_zone, Column(df, "Zone"))
    /\ sel_cat' = EffectiveSet(sel_cat, Column(df, "Category"))
    /\ df_filtered' = SelectRows(df, sel_month', sel_zone', sel_cat')
    /\ IF empty(df_filtered')
       THEN /\ st_warning' = TRUE
            /\ pc' = "stopped"
       ELSE /\ st_warning' = st_warning
            /\ pc' = "kpi"
    /\ UNCHANGED <<source, df, st_error, sorted_months, picked>>
    /\ UNCHANGED viewVars

(* ---------------------------- views ----------------------------------- *)

\* groupby(keyf)[valf].sum() over the given ordered group keys
GroupSum(table, keyf, valf, keys) ==
    [i \in 1..Len(keys) |->
        [key |-> keys[i],
         val |-> SumSeq(Column(SelectSeq(table, LAMBDA r : r[keyf] = keys[i]),
                               valf))]]

\* the group keys of a natural-valued column, sorted
NatKeys(table, keyf) == SortedNat(Range(Column(table, keyf)))

\* the group keys of the Zone column, sorted; groupby drops the null key
ZoneKeys(table) ==
    SelectSeq(ZoneOrder, LAMBDA z : z \in Range(Column(table, "Zone")))

\* the group keys of the Date column, sorted; groupby drops the null key
DateKeys(table) == SortedNat(Range(Column(table, "Date")) \ {NaT})

\* groupby(['Zone','Lat','Lon'])[['Amount','Unit Sold']].sum().reset_index();
\* Lat and Lon are functions of Zone, so every zone forms one group
ZoneAggregate(table) ==
    LET keys == ZoneKeys(table)
    IN  [i \in 1..Len(keys) |->
            LET g == SelectSeq(table, LAMBDA r : r.Zone = keys[i])
            IN  [Zone |-> keys[i], Lat |-> g[1].Lat, Lon |-> g[1].Lon,
                 Amount |-> SumSeq(Column(g, "Amount")),
                 UnitSold |-> SumSeq(Column(g, "UnitSold"))]]

\* groupby('Date')[['Amount']].sum().reset_index().sort_values('Date')
Trend(table) ==
    LET g      == GroupSum(table, "Date", "Amount", DateKeys(table))
        byDate == SortAsc([i \in 1..Len(g) |-> [key |-> i, val |-> g[i].key]])
    IN  [i \in 1..Len(g) |->
            [Date |-> g[byDate[i].key].key, Amount |-> g[byDate[i].key].val]]

nlargestAscending(series, n) == firstN(SortAsc(series), n)

\* Series.nlargest(n), keep='first'
nlargest(series, n) == firstN(SortDesc(series), n)

\* Series.nsmallest(n), keep='first'
nsmallest(series, n) == firstN(SortAsc(series), n)

\* KPI HEADER
KpiHeader ==
    /\ pc = "kpi"
    /\ kpi_rev' = SumSeq(Column(df_filtered, "Amount"))
    /\ kpi_vol' = SumSeq(Column(df_filtered, "UnitSold"))
    /\ kpi_stores' = Cardinality(Range(Column(df_filtered, "Store")))
    /\ computed' = computed \cup {"kpi"}
    /\ pc' = "strat"
    /\ UNCHANGED <<source, df, st_error, st_warning, sorted_months, picked,
                   sel_month, sel_zone, sel_cat, df_filtered, zone_agg,
                   trend_df, top_stores, bottom_stores, top_sku, top_zone>>

\* tab_strat: the zone map and the revenue trajectory
StrategyTab ==
    /\ pc = "strat"
    /\ zone_agg' = ZoneAggregate(df_filtered)
    /\ trend_df' = Trend(df_filtered)
    /\ computed' = computed \cup {"zone", "trend"}
    /\ pc' = "micro"
    /\ UNCHANGED <<source, df, st_error, st_warning, sorted_months, picked,
                   sel_month, sel_zone, sel_cat, df_filtered, kpi_rev,
                   kpi_vol, kpi_stores, top_stores, bottom_stores, top_sku,
                   top_zone>>

\* tab_micro: the sunburst and the scatter are drawn by the chart library
\* straight from df_filtered
MicroTab ==
    /\ pc = "micro"
    /\ computed' = computed \cup {"hierarchy", "pairs"}
    /\ pc' = "leader"
    /\ UNCHANGED <<source, df, st_error, st_warning, sorted_months, picked,
                   sel_month, sel_zone, sel_cat, df_filtered, kpi_rev,
                   kpi_vol, kpi_stores, zone_agg, trend_df, top_stores,
                   bottom_stores, top_sku, top_zone>>

\* tab_leader: the four leaderboards
LeaderTab ==
    /\ pc = "leader"
    /\ top_stores' =
         nlargest(GroupSum(df_filtered, "Store", "Amount",
                           NatKeys(df_filtered, "Store")), TopN)
    /\ bottom_stores' =
         nsmallest(GroupSum(df_filtered, "Store", "Amount",
                            NatKeys(df_filtered, "Store")), TopN)
    /\ top_sku' =
         nlargest(GroupSum(df_filtered, "SKU", "UnitSold",
                           NatKeys(df_filtered, "SKU")), TopN)
    /\ top_zone' =
         SortDesc(GroupSum(df_filtered, "Zone", "Amount",
                           ZoneKeys(df_filtered)))
    /\ computed' = computed \cup {"leader"}
    /\ pc' = "done"
    /\ UNCHANGED <<source, df, st_error, st_warning, sorted_months, picked,
                   sel_month, sel_zone, sel_cat, df_filtered, kpi_rev,
                   kpi_vol, kpi_stores, zone_agg, trend_df>>

Next ==
    \/ Load
    \/ Sidebar
    \/ ApplyFilter
    \/ KpiHeader
    \/ StrategyTab
    \/ MicroTab
    \/ LeaderTab

Spec == Init /\ [][Next]_vars

TypeOK ==
    /\ pc \in {"start", "sidebar", "filter", "kpi", "strat", "micro",
               "leader", "done", "stopped", "crashed"}
    /\ source \in Sources
    /\ st_warning \in BOOLEAN
    /\ computed \subseteq {"kpi", "zone", "trend", "hierarchy", "pairs",
                           "leader"}

(* ---------------------------- properties -------------------------------- *)

\* load_data has returned a table
Loaded == pc \notin {"start"} /\ source.status = "ok"

\* the filter of lines 76-85 has been applied
Filtered == pc \in {"kpi", "strat", "micro", "leader", "done"} \/ st_warning

\* the three effective sets, stated from the user's selection
AllOf(f) == {df[i][f] : i \in 1..Len(df)}

EffMonths == IF picked.month = {} THEN AllOf("Month2") ELSE picked.month

EffZones == IF picked.zone = {} THEN AllOf("Zone") ELSE picked.zone

EffCats == IF picked.cat = {} THEN AllOf("Category") ELSE picked.cat

\* the distinct stores of the filtered table
AllStores == {df_filtered[i].Store : i \in 1..Len(df_filtered)}

\* C1: after the filter, a record of the table is in the filtered table
\* exactly when its period, its zone and its category are each in the
\* effective set of their dimension; a record matching only one or two
\* dimensions is dropped and a record matching all three is kept.
Thm_C1_ConjunctiveFilter ==
    Filtered =>
        \A i \in 1..Len(df) :
            (df[i] \in Range(df_filtered)) <=>
                (/\ df[i].Month2 \in sel_month
                 /\ df[i].Zone \in sel_zone
                 /\ df[i].Category \in sel_cat)

\* a record matching two dimensions only was dropped while another was kept
Wit_C1_TwoOfThreeDropped ==
    /\ Filtered
    /\ df_filtered # <<>>
    /\ \E i \in 1..Len(df) :
          /\ df[i].Month2 \in sel_month
          /\ df[i].Zone \in sel_zone
          /\ df[i].Category \notin sel_cat
          /\ df[i] \notin Range(df_filtered)

\* C2: the effective set the filter uses for a dimension is the full set
\* of distinct values of that dimension in the table when the selection of
\* the dimension is empty, and the selection itself otherwise.
Thm_C2_EmptyMeansAll ==
    Filtered =>
        /\ sel_month = EffMonths
        /\ sel_zone = EffZones
        /\ sel_cat = EffCats

\* an empty zone selection became the table's several zones, next to a
\* period selection used as it is
Wit_C2_EmptyZoneSelection ==
    /\ Filtered
    /\ picked.zone = {}
    /\ Cardinality(sel_zone) >= 2
    /\ picked.month # {}
    /\ sel_month = picked.month
    /\ sel_month # AllOf("Month2")

\* C3: the empty-result warning is raised exactly when no record of the
\* table passes the three effective sets; when it is raised the run has
\* stopped and no view has been computed, and it is never raised when a
\* record is retained.
Thm_C3_EmptyResultStops ==
    /\ st_warning => (pc = "stopped" /\ computed = {} /\ df_filtered = <<>>)
    /\ Filtered =>
          (st_warning <=>
              ~ \E i \in 1..Len(df) :
                    /\ df[i].Month2 \in EffMonths
                    /\ df[i].Zone \in EffZones
                    /\ df[i].Category \in EffCats)
    /\ computed # {} => (~st_warning /\ df_filtered # <<>>)

\* the warning was raised on a non-empty table with three non-empty
\* selections
Wit_C3_WarnedAndStopped ==
    /\ st_warning
    /\ pc = "stopped"
    /\ df # <<>>
    /\ picked.month # {}
    /\ picked.zone # {}
    /\ picked.cat # {}

\* C4 (as claimed): the KPI total revenue equals the sum of the Amount
\* column of the zone aggregate of the same filtered table.
Cex_C4_RevenueEqualsZoneAggregate ==
    "zone" \in computed =>
        kpi_rev = SumSeq(Column(zone_agg, "Amount"))

Thm_C6_FilterIdempotent ==
    Filtered => Filter(df_filtered, picked) = df_filtered

\* a selection with an empty dimension kept some records and dropped others
Wit_C6_PartialFilterEmptyDimension ==
    /\ Filtered
    /\ picked.zone = {}
    /\ df_filtered # <<>>
    /\ Len(df_filtered) < Len(df)

\* C7 (as claimed): every record of a table that load returned has a
\* non-null zone (a source with a null zone makes the load fail).
Cex_C7_NoNullZoneAfterLoad ==
    Loaded => \A i \in 1..Len(df) : df[i].Zone # NaN

\* C8 (as claimed): a source with an unparseable period never makes the
\* run fail; the record gets a null date, stays in the table, and is in no
\* row of the time series.
Cex_C8_BadPeriodNeverFails ==
    (\E i \in 1..Len(source.rows) : source.rows[i].Month2 = "garbage") =>
        /\ pc # "crashed"
        /\ Loaded =>
              /\ Len(df) = Len(source.rows)
              /\ \A i \in 1..Len(df) :
                    df[i].Month2 = "garbage" => df[i].Date = NaT
        /\ \A i \in 1..Len(trend_df) : trend_df[i].Date # NaT

\* C9: when the source cannot be read, an error is surfaced and the run
\* halts at the load: no table, no selection, no filter and no view.
Thm_C9_UnreadableSourceHalts ==
    source.status # "ok" =>
        /\ pc \in {"start", "stopped"}
        /\ pc = "stopped" => st_error # ""
        /\ df = <<>>
        /\ df_filtered = <<>>
        /\ picked = NoPick
        /\ ~st_warning
        /\ computed = {}

\* the run halted on a source that exists but could not be read
Wit_C9_HaltedOnReaderError ==
    /\ source.status = "unreadable"
    /\ pc = "stopped"
    /\ st_error # ""

\* C10: every record of the table carries the anchor of its zone when the
\* zone is one of the five known ones, and Central's anchor (21.14, 79.08)
\* otherwise.
Thm_C10_ZoneAnchor ==
    Loaded =>
        \A i \in 1..Len(df) :
            IF df[i].Zone \in {"North", "West", "East", "South", "Central"}
            THEN /\ df[i].Lat = ZONE_COORDS[df[i].Zone].lat
                 /\ df[i].Lon = ZONE_COORDS[df[i].Zone].lon
            ELSE /\ df[i].Lat = 2114
                 /\ df[i].Lon = 7908

\* a table with an unrecognised zone and a known zone other than Central
Wit_C10_UnknownZoneLoaded ==
    /\ Loaded
    /\ \E i \in 1..Len(df) : df[i].Zone = "Unknown" /\ df[i].Lat = 2114
    /\ \E i \in 1..Len(df) : df[i].Zone = "East" /\ df[i].Lat = 2257
====
